---- MODULE Spec2Model ----
(***************************************************************************)
(* Absensi-IoT: face-recognition attendance server.                        *)
(*                                                                         *)
(* The model covers the SQLite persistence layer (_data_persistance.py),   *)
(* the recognition decision and the /absensi request handler               *)
(* (server_main.py) and the administrative reset (utils.py).               *)
(*                                                                         *)
(* Numbers.  Embeddings are integer vectors whose L2 norm is an integer,   *)
(* so the cosine similarity dot/(n1*n2) is a rational number and the       *)
(* distance 1 - similarity is held exactly as a fixed-point integer in     *)
(* units of 1/One (1.0 is One, 0.95 is 95, 0.0 is 0).                      *)
(*                                                                         *)
(* Time.  The wall clock `now` counts hours since day 0.  A timestamp      *)
(* string "%Y-%m-%d %H:%M:%S" is the pair <<day, hour>> of its zero-padded *)
(* fields; SQLite compares TEXT values field by field from the left, which *)
(* is the lexicographic order TextGE.                                      *)
(***************************************************************************)
EXTENDS Integers, Sequences, FiniteSets, TLC

VARIABLES files, MAGANG_EMBEDDINGS, now, last

vars == <<files, MAGANG_EMBEDDINGS, now, last>>

---------------------------------------------------------------------------
(* Bounds of the model *)

MaxLog == 2
MaxClock == 3
MaxFolders == 2

(* Hours in a modelled day: 2, so that MaxClock spans two days *)
HoursPerDay == 2

(* Inputs *)
Ids == {"A001", "B002"}
Names == {"Ana", "Budi"}
LogTypes == {"MASUK", "KELUAR"}

(* Live embeddings: <<0,0>> has norm 0; <<1,0>> and <<5,0>> are parallel;  *)
(* <<0,1>> is orthogonal to <<1,0>>; <<3,4>> lies between the axes, at     *)
(* distance 0.4 from <<1,0>> and 0.2 from <<0,1>>.  The server's roster is *)
(* enrolled from EnrolEmbeddings, the store alone from StoreEmbeddings.    *)
Embeddings == {<<0, 0>>, <<1, 0>>, <<5, 0>>, <<0, 1>>, <<3, 4>>}
EnrolEmbeddings == {<<0, 0>>, <<1, 0>>, <<0, 1>>}
StoreEmbeddings == {<<1, 0>>, <<0, 1>>}

---------------------------------------------------------------------------
(* Program constants *)

DATABASE_NAME == "absensi.db"
DB_PATH == "database/absensi.db"
DATABASE_PATH == "database/absensi.db"
DbPaths == {DATABASE_NAME, DB_PATH}

One == 100
SIMILARITY_THRESHOLD == 95
EmptyRosterDistance == 99900
Inf == 1000000
RequiredPositional == 4

---------------------------------------------------------------------------
(* Helpers over sequences *)

RECURSIVE SelectSeqNot(_, _)
SelectSeqNot(rows, id) ==
    IF rows = <<>> THEN <<>>
    ELSE IF Head(rows).id = id THEN SelectSeqNot(Tail(rows), id)
         ELSE <<Head(rows)>> \o SelectSeqNot(Tail(rows), id)

RECURSIVE MaxRowId(_)
MaxRowId(rows) ==
    IF rows = <<>> THEN 0
    ELSE LET m == MaxRowId(Tail(rows))
         IN IF Head(rows).id > m THEN Head(rows).id ELSE m

---------------------------------------------------------------------------
(* Time *)

strftime(t) == <<t \div HoursPerDay, t % HoursPerDay>>

today_start(t) == <<t \div HoursPerDay, 0>>

TextGE(a, b) == a[1] > b[1] \/ (a[1] = b[1] /\ a[2] >= b[2])

---------------------------------------------------------------------------
(* numpy *)

Abs(x) == IF x < 0 THEN -x ELSE x

(* 2^24: float32 keeps 24 significant bits *)
Float32Exact == 16777216

(* float32 keeps 24 significant bits: integers up to 2^24 are exact, a    *)
(* larger magnitude is rounded down to a multiple of its unit in the last  *)
(* place (models the rounding direction only as far as magnitude).        *)
RECURSIVE Ulp(_, _)
Ulp(x, u) == IF Abs(x) <= Float32Exact * u THEN u ELSE Ulp(x, 2 * u)

float32(x) == LET u == Ulp(x, 1) IN (x \div u) * u

astype_float32(v) == [i \in 1..Len(v) |-> float32(v[i])]

flatten(v) == v

RECURSIVE dot(_, _)
dot(a, b) ==
    IF a = <<>> THEN 0 ELSE Head(a) * Head(b) + dot(Tail(a), Tail(b))

ISqrt(n) == CHOOSE r \in 0..n : r * r <= n /\ (r + 1) * (r + 1) > n

norm(v) == ISqrt(dot(v, v))

---------------------------------------------------------------------------
(* server_main.py: recognition *)

(* Variant: the similarity itself is returned instead of 1 - similarity *)
calculate_cosine_similarity(emb1, emb2) ==
    LET dot_product == dot(flatten(emb1), flatten(emb2))
        norm_emb1 == norm(emb1)
        norm_emb2 == norm(emb2)
    IN IF norm_emb1 = 0 \/ norm_emb2 = 0
       THEN One
       ELSE (One * dot_product) \div (norm_emb1 * norm_emb2)

calculate_cosine_distance(emb1, emb2) ==
    LET dot_product == dot(flatten(emb1), flatten(emb2))
        norm_emb1 == norm(emb1)
        norm_emb2 == norm(emb2)
    IN IF norm_emb1 = 0 \/ norm_emb2 = 0
       THEN One
       ELSE One - ((One * dot_product) \div (norm_emb1 * norm_emb2))

(* Variant: the comparison is <=, so the last of several equal minima wins *)
RECURSIVE scan_last_wins(_, _, _, _)
scan_last_wins(roster, i, live_embedding, best) ==
    IF i > Len(roster) THEN best
    ELSE LET magang == roster[i]
             master_embedding == flatten(magang.embedding)
             distance == calculate_cosine_distance(live_embedding, master_embedding)
         IN IF distance <= best.distance
            THEN scan_last_wins(roster, i + 1, live_embedding,
                      [id |-> magang.id, distance |-> distance,
                       name |-> magang.name, calls |-> best.calls + 1])
            ELSE scan_last_wins(roster, i + 1, live_embedding,
                      [best EXCEPT !.calls = @ + 1])

(* The for loop of recognize_face over roster[i..], carrying the running   *)
(* minimum and the best match found so far; `calls` counts the distances  *)
(* computed.                                                              *)
RECURSIVE scan(_, _, _, _)
scan(roster, i, live_embedding, best) ==
    IF i > Len(roster) THEN best
    ELSE LET magang == roster[i]
             master_embedding == flatten(magang.embedding)
             distance == calculate_cosine_distance(live_embedding, master_embedding)
         IN IF distance < best.distance
            THEN scan(roster, i + 1, live_embedding,
                      [id |-> magang.id, distance |-> distance,
                       name |-> magang.name, calls |-> best.calls + 1])
            ELSE scan(roster, i + 1, live_embedding,
                      [best EXCEPT !.calls = @ + 1])

(* Variant: no early return for an empty roster *)
recognize_face_always_scans(live_embedding) ==
    LET best == scan(MAGANG_EMBEDDINGS, 1, live_embedding,
                     [id |-> "UNKNOWN", distance |-> Inf, name |-> "UNKNOWN",
                      calls |-> 0])
    IN IF best.distance > SIMILARITY_THRESHOLD
       THEN [best EXCEPT !.id = "UNKNOWN", !.name = "UNKNOWN"]
       ELSE best

recognize_face(live_embedding) ==
    IF MAGANG_EMBEDDINGS = <<>>
    THEN [id |-> "UNKNOWN", distance |-> EmptyRosterDistance, name |-> "UNKNOWN",
          calls |-> 0]
    ELSE LET best == scan(MAGANG_EMBEDDINGS, 1, live_embedding,
                          [id |-> "UNKNOWN", distance |-> Inf, name |-> "UNKNOWN",
                           calls |-> 0])
         IN IF best.distance > SIMILARITY_THRESHOLD
            THEN [best EXCEPT !.id = "UNKNOWN", !.name = "UNKNOWN"]
            ELSE best

---------------------------------------------------------------------------
(* _data_persistance.py: tables *)

NoTable == [present |-> FALSE, rows |-> <<>>]

(* A database file that was never opened: sqlite3.connect creates it *)
NoFile == [exists |-> FALSE, magang |-> NoTable, absensi |-> NoTable]

(* The files after a successful sqlite3.connect(db_name) *)
connect(db_name) == [files EXCEPT ![db_name].exists = TRUE]

magang_rows(db_name) == files[db_name].magang.rows
absensi_rows(db_name) == files[db_name].absensi.rows

(* The record of the last operation: its name, arguments and result *)
Idle ==
    [op |-> "none", db |-> "", id |-> "", name |-> "", emb |-> <<>>,
     type |-> "", time |-> <<0, 0>>, face |-> FALSE, err |-> FALSE,
     ret |-> "None", distance |-> 0, calls |-> 0, existed |-> FALSE,
     raised |-> "none", open |-> 0, folders |-> 0, enrolled |-> {}]

Init ==
    /\ files = [d \in DbPaths |-> NoFile]
    /\ MAGANG_EMBEDDINGS = <<>>
    /\ now = 0
    /\ last = Idle

create_initial_tables(db_name, err) ==
    /\ files' = IF err THEN connect(db_name)
                ELSE [connect(db_name) EXCEPT ![db_name].magang.present = TRUE,
                                              ![db_name].absensi.present = TRUE]
    /\ last' = [Idle EXCEPT !.op = "create_initial_tables", !.db = db_name, !.err = err]
    /\ UNCHANGED <<MAGANG_EMBEDDINGS, now>>

(* Variant: clearing the table also empties the server's loaded roster *)
clear_magang_table_and_roster(db_name, err) ==
    /\ files' = IF err \/ ~files[db_name].magang.present THEN connect(db_name)
                ELSE [connect(db_name) EXCEPT ![db_name].magang.rows = <<>>]
    /\ last' = [Idle EXCEPT !.op = "clear_magang_table", !.db = db_name, !.err = err]
    /\ MAGANG_EMBEDDINGS' = IF err \/ ~files[db_name].magang.present
                            THEN MAGANG_EMBEDDINGS ELSE <<>>
    /\ UNCHANGED now

clear_magang_table(db_name, err) ==
    /\ files' = IF err \/ ~files[db_name].magang.present THEN connect(db_name)
                ELSE [connect(db_name) EXCEPT ![db_name].magang.rows = <<>>]
    /\ last' = [Idle EXCEPT !.op = "clear_magang_table", !.db = db_name, !.err = err]
    /\ UNCHANGED <<MAGANG_EMBEDDINGS, now>>

(* Variant: plain INSERT into a table without a primary key *)
save_new_magang_plain_insert(db_name, magang_id, magang_name, embedding_array, err) ==
    LET embedding_blob == astype_float32(embedding_array)
        current_time == strftime(now)
        failed == err \/ ~files[db_name].magang.present
        row == [id |-> magang_id, nama |-> magang_name,
                master_embedding |-> embedding_blob, last_updated |-> current_time]
    IN /\ files' = IF failed THEN connect(db_name)
                   ELSE [connect(db_name) EXCEPT ![db_name].magang.rows = Append(@, row)]
       /\ last' = [Idle EXCEPT !.op = "save_new_magang", !.db = db_name,
                               !.id = magang_id, !.name = magang_name,
                               !.emb = embedding_array, !.err = err,
                               !.existed = \E i \in 1..Len(magang_rows(db_name)) :
                                              magang_rows(db_name)[i].id = magang_id,
                               !.ret = IF failed THEN "False" ELSE "True"]
       /\ UNCHANGED <<MAGANG_EMBEDDINGS, now>>

save_new_magang(db_name, magang_id, magang_name, embedding_array, err) ==
    LET embedding_blob == astype_float32(embedding_array)
        current_time == strftime(now)
        failed == err \/ ~files[db_name].magang.present
        row == [id |-> magang_id, nama |-> magang_name,
                master_embedding |-> embedding_blob, last_updated |-> current_time]
    IN /\ files' = IF failed THEN connect(db_name)
                   ELSE [connect(db_name) EXCEPT ![db_name].magang.rows =
                            Append(SelectSeqNot(@, magang_id), row)]
       /\ last' = [Idle EXCEPT !.op = "save_new_magang", !.db = db_name,
                               !.id = magang_id, !.name = magang_name,
                               !.emb = embedding_array, !.err = err,
                               !.existed = \E i \in 1..Len(magang_rows(db_name)) :
                                              magang_rows(db_name)[i].id = magang_id,
                               !.ret = IF failed THEN "False" ELSE "True"]
       /\ UNCHANGED <<MAGANG_EMBEDDINGS, now>>

load_all_magang_embeddings(db_name, err) ==
    IF err \/ ~files[db_name].magang.present THEN <<>>
    ELSE [i \in 1..Len(magang_rows(db_name)) |->
            [id |-> magang_rows(db_name)[i].id,
             name |-> magang_rows(db_name)[i].nama,
             embedding |-> magang_rows(db_name)[i].master_embedding]]

---------------------------------------------------------------------------
(* server_main.py: lifecycle *)

startup_event(err) ==
    /\ MAGANG_EMBEDDINGS' = load_all_magang_embeddings(DATABASE_NAME, err)
    /\ files' = connect(DATABASE_NAME)
    /\ last' = [Idle EXCEPT !.op = "startup_event", !.db = DATABASE_NAME, !.err = err]
    /\ UNCHANGED now

(* _data_persistance.py: attendance log *)

(* Variant: no row is written for an identity already logged today *)
ledger_insert_once_per_day(db_name, magang_id, magang_name, log_time, log_type, err) ==
    LET failed == err \/ ~files[db_name].absensi.present
        logged == \E i \in 1..Len(absensi_rows(db_name)) :
                     /\ absensi_rows(db_name)[i].magang_id = magang_id
                     /\ absensi_rows(db_name)[i].type = log_type
                     /\ TextGE(absensi_rows(db_name)[i].timestamp, today_start(now))
        row == [id |-> MaxRowId(absensi_rows(db_name)) + 1,
                magang_id |-> magang_id, nama |-> magang_name,
                timestamp |-> log_time, type |-> log_type]
    IN IF failed \/ logged THEN connect(db_name)
       ELSE [connect(db_name) EXCEPT ![db_name].absensi.rows = Append(@, row)]

(* Variant: the newest row is overwritten instead of a row being added *)
ledger_insert_overwrites(db_name, magang_id, magang_name, log_time, log_type, err) ==
    LET failed == err \/ ~files[db_name].absensi.present
        n == Len(absensi_rows(db_name))
        row == [id |-> IF n = 0 THEN 1 ELSE absensi_rows(db_name)[n].id,
                magang_id |-> magang_id, nama |-> magang_name,
                timestamp |-> log_time, type |-> log_type]
    IN IF failed THEN connect(db_name)
       ELSE IF n = 0 THEN [connect(db_name) EXCEPT ![db_name].absensi.rows = <<row>>]
       ELSE [connect(db_name) EXCEPT ![db_name].absensi.rows[n] = row]

(* The files after INSERT INTO absensi and commit.  The row id of an      *)
(* INTEGER PRIMARY KEY column is one more than the largest id in use.     *)
ledger_insert(db_name, magang_id, magang_name, log_time, log_type, err) ==
    LET failed == err \/ ~files[db_name].absensi.present
        row == [id |-> MaxRowId(absensi_rows(db_name)) + 1,
                magang_id |-> magang_id, nama |-> magang_name,
                timestamp |-> log_time, type |-> log_type]
    IN IF failed THEN connect(db_name)
       ELSE [connect(db_name) EXCEPT ![db_name].absensi.rows = Append(@, row)]

update_absensi_log(db_name, magang_id, magang_name, log_time, log_type, err) ==
    /\ Len(absensi_rows(db_name)) < MaxLog
    /\ files' = ledger_insert(db_name, magang_id, magang_name, log_time, log_type, err)
    /\ last' = [Idle EXCEPT !.op = "update_absensi_log", !.db = db_name,
                            !.id = magang_id, !.name = magang_name,
                            !.time = log_time, !.type = log_type, !.err = err]
    /\ UNCHANGED <<MAGANG_EMBEDDINGS, now>>

found_today(db_name, magang_id, log_type) ==
    \E i \in 1..Len(absensi_rows(db_name)) :
        /\ absensi_rows(db_name)[i].magang_id = magang_id
        /\ absensi_rows(db_name)[i].type = log_type
        /\ TextGE(absensi_rows(db_name)[i].timestamp, today_start(now))

check_already_absen(db_name, magang_id, log_type, err) ==
    LET failed == err \/ ~files[db_name].absensi.present
    IN /\ last' = [Idle EXCEPT !.op = "check_already_absen", !.db = db_name,
                               !.id = magang_id, !.type = log_type, !.err = err,
                               !.ret = IF failed THEN "False"
                                       ELSE IF found_today(db_name, magang_id, log_type)
                                            THEN "True" ELSE "False"]
       /\ files' = connect(db_name)
       /\ UNCHANGED <<MAGANG_EMBEDDINGS, now>>

---------------------------------------------------------------------------
(* server_main.py: request handler *)

(* A call of update_absensi_log with the positional arguments args and    *)
(* the default log_type.  The function requires four positional           *)
(* arguments (db_name, magang_id, magang_name, log_time); with fewer,     *)
(* Python raises TypeError before the body runs.                          *)
call_update_absensi_log(args, err) ==
    IF Len(args) < RequiredPositional
    THEN [raised |-> TRUE, files |-> files]
    ELSE [raised |-> FALSE,
          files |-> ledger_insert(args[1], args[2], args[3], args[4], "MASUK", err)]

(* Variant: the handler also writes a log row for an unrecognised face *)
absensi_endpoint_logs_unknown(face, live_embedding, err) ==
    LET r == recognize_face(live_embedding)
        c == call_update_absensi_log(<<DATABASE_NAME, r.id, r.name>>, err)
        req == [Idle EXCEPT !.op = "absensi_endpoint", !.db = DATABASE_NAME,
                            !.face = face, !.emb = live_embedding]
        res == [req EXCEPT !.id = r.id, !.name = r.name,
                           !.distance = r.distance, !.calls = r.calls]
    IN /\ IF ~face
          THEN last' = [req EXCEPT !.ret = "FAIL400"] /\ files' = files
          ELSE IF r.id # "UNKNOWN"
               THEN /\ files' = c.files
                    /\ last' = [res EXCEPT !.ret = IF c.raised THEN "ERROR500"
                                                  ELSE "SUCCESS200"]
               ELSE /\ last' = [res EXCEPT !.ret = "FAIL403"]
                    /\ files' = ledger_insert(DATABASE_NAME, r.id, r.name,
                                              strftime(now), "MASUK", err)
       /\ UNCHANGED <<MAGANG_EMBEDDINGS, now>>

(* face: MTCNN found a face in the uploaded image.  The call at line 165  *)
(* passes (DATABASE_NAME, id_magang, nama); an exception in the handler   *)
(* is answered with HTTP 500 (lines 193-198).                             *)
absensi_endpoint(face, live_embedding, err) ==
    LET r == recognize_face(live_embedding)
        c == call_update_absensi_log(<<DATABASE_NAME, r.id, r.name>>, err)
        req == [Idle EXCEPT !.op = "absensi_endpoint", !.db = DATABASE_NAME,
                            !.face = face, !.emb = live_embedding]
        res == [req EXCEPT !.id = r.id, !.name = r.name,
                           !.distance = r.distance, !.calls = r.calls]
    IN /\ IF ~face
          THEN last' = [req EXCEPT !.ret = "FAIL400"] /\ files' = files
          ELSE IF r.id # "UNKNOWN"
               THEN /\ files' = c.files
                    /\ last' = [res EXCEPT !.ret = IF c.raised THEN "ERROR500"
                                                  ELSE "SUCCESS200"]
               ELSE last' = [res EXCEPT !.ret = "FAIL403"] /\ files' = files
       /\ UNCHANGED <<MAGANG_EMBEDDINGS, now>>

---------------------------------------------------------------------------
(* utils.py: administrative tools *)

(* A storage fault met by a tool of utils.py: where it is raised and the  *)
(* exception class.  sqlite3.connect raises OperationalError ("unable to  *)
(* open database file"); a statement raises OperationalError ("database   *)
(* is locked") or DatabaseError ("file is not a database", "database disk *)
(* image is malformed"), which is a sqlite3.Error but not an              *)
(* OperationalError.                                                      *)
NoFault == [at |-> "none", class |-> "none"]

Faults ==
    {NoFault,
     [at |-> "connect", class |-> "OperationalError"],
     [at |-> "execute", class |-> "OperationalError"],
     [at |-> "execute", class |-> "DatabaseError"]}

(* The exception class a statement on table absensi of DB_PATH raises:    *)
(* the injected fault, or "no such table"                                 *)
statement_error(fault) ==
    IF fault.at = "execute" THEN fault.class
    ELSE IF ~files[DB_PATH].absensi.present THEN "OperationalError"
    ELSE "none"

(* The handlers of utils.py catch sqlite3.OperationalError only           *)
escapes(class) == class \notin {"none", "OperationalError"}

(* Lines 51-84.  conn.close() (line 65) is the last statement of the try  *)
(* block: it is skipped when connect or execute raises, and there is no   *)
(* finally clause.                                                        *)
view_absensi_log(fault) ==
    LET class == statement_error(fault)
        call == [Idle EXCEPT !.op = "view_absensi_log", !.db = DB_PATH]
    IN /\ last' = IF ~files[DB_PATH].exists THEN call
                  ELSE IF fault.at = "connect" THEN [call EXCEPT !.err = TRUE]
                  ELSE IF class # "none"
                       THEN [call EXCEPT !.err = TRUE, !.open = 1,
                                         !.raised = IF escapes(class) THEN class
                                                    ELSE "none"]
                       ELSE [call EXCEPT !.ret = IF absensi_rows(DB_PATH) = <<>>
                                                  THEN "empty" ELSE "printed"]
       /\ UNCHANGED <<files, MAGANG_EMBEDDINGS, now>>

(* Lines 90-121.  The finally clause closes the connection when connect   *)
(* returned one.                                                          *)
reset_absensi_log(fault) ==
    LET class == statement_error(fault)
    IN /\ files' = IF fault.at = "connect" THEN files
                   ELSE IF class # "none" THEN connect(DB_PATH)
                   ELSE [connect(DB_PATH) EXCEPT ![DB_PATH].absensi.rows = <<>>]
       /\ last' = [Idle EXCEPT !.op = "reset_absensi_log", !.db = DB_PATH,
                               !.err = fault.at = "connect" \/ class # "none",
                               !.raised = IF fault.at # "connect" /\ escapes(class)
                                          THEN class ELSE "none"]
       /\ UNCHANGED <<MAGANG_EMBEDDINGS, now>>

---------------------------------------------------------------------------
(* training_embedding.py: the training run *)

(* What one image file of an identity folder gives: an embedding of the   *)
(* detected face, no face (MTCNN returns None), or an error of Image.open *)
Face(e) == [kind |-> "face", emb |-> e]
NoFace == [kind |-> "noface", emb |-> <<0, 0>>]
Unreadable == [kind |-> "unreadable", emb |-> <<0, 0>>]

(* The image files of an identity folder; a folder is listed only when it *)
(* holds at least one image file (line 44)                                *)
ImageFiles ==
    {<<NoFace>>,
     <<NoFace, Face(<<1, 0>>), Face(<<5, 0>>)>>,
     <<Unreadable>>}

(* get_magang_folders: id and name are both the folder's base name *)
MagangFolders == {[id |-> i, name |-> i, images |-> f] : i \in Ids, f \in ImageFiles}

MagangLists == UNION {[1..n -> MagangFolders] : n \in 0..MaxFolders}

(* Lines 106-131: the embeddings of the images in which a face was found *)
RECURSIVE extract_embeddings(_)
extract_embeddings(images) ==
    IF images = <<>> THEN <<>>
    ELSE IF Head(images).kind = "face"
         THEN <<Head(images).emb>> \o extract_embeddings(Tail(images))
         ELSE extract_embeddings(Tail(images))

RECURSIVE sum(_, _)
sum(embeddings, k) ==
    IF embeddings = <<>> THEN 0
    ELSE Head(embeddings)[k] + sum(Tail(embeddings), k)

(* np.mean(embeddings, axis=0); the quotient is exact for ImageFiles *)
mean(embeddings) ==
    [k \in 1..Len(Head(embeddings)) |-> sum(embeddings, k) \div Len(embeddings)]

(* Lines 91-143 from folder k on.  run holds the rows of table magang, the *)
(* ids for which embeddings were made, whether a storage call failed and   *)
(* the exception that ended the run.  Image.open (line 106) is outside the *)
(* try block; the status that save_new_magang returns is only logged.      *)
RECURSIVE enrol_folders(_, _, _, _)
enrol_folders(run, magang_list, k, err_save) ==
    IF k > Len(magang_list) THEN run
    ELSE LET magang == magang_list[k]
             embeddings == extract_embeddings(magang.images)
             failed == k \in err_save \/ ~files[DATABASE_PATH].magang.present
             row == [id |-> magang.id, nama |-> magang.name,
                     master_embedding |-> astype_float32(mean(embeddings)),
                     last_updated |-> strftime(now)]
         IN IF \E i \in 1..Len(magang.images) : magang.images[i].kind = "unreadable"
            THEN [run EXCEPT !.raised = "UnidentifiedImageError"]
            ELSE IF embeddings = <<>>
                 THEN enrol_folders(run, magang_list, k + 1, err_save)
                 ELSE enrol_folders(
                        [run EXCEPT !.rows = IF failed THEN @
                                             ELSE Append(SelectSeqNot(@, magang.id), row),
                                    !.enrolled = @ \cup {magang.id},
                                    !.err = @ \/ failed],
                        magang_list, k + 1, err_save)

(* Variant: the run does not clear table magang before it enrols *)
process_and_save_embeddings_keeps_roster(data_root, magang_list, err_clear, err_save) ==
    LET clear_failed == err_clear \/ ~files[DATABASE_PATH].magang.present
        start == [rows |-> magang_rows(DATABASE_PATH),
                  enrolled |-> {}, err |-> clear_failed, raised |-> "none"]
        call == [Idle EXCEPT !.op = "process_and_save_embeddings",
                             !.db = DATABASE_PATH,
                             !.existed = magang_rows(DATABASE_PATH) # <<>>]
    IN /\ IF ~data_root \/ magang_list = <<>>
          THEN /\ last' = call
               /\ files' = files
          ELSE \E end \in {enrol_folders(start, magang_list, 1, err_save)} :
               /\ last' = [call EXCEPT !.folders = Len(magang_list),
                                       !.enrolled = end.enrolled,
                                       !.err = end.err, !.raised = end.raised]
               /\ files' = [connect(DATABASE_PATH) EXCEPT
                               ![DATABASE_PATH].magang.rows = end.rows]
       /\ UNCHANGED <<MAGANG_EMBEDDINGS, now>>

(* Lines 52-152.  data_root: the dataset folder exists; magang_list: the  *)
(* folders get_magang_folders finds; err_clear, err_save: the storage     *)
(* calls that meet an sqlite3.Error (clear_magang_table, and the k-th     *)
(* folder's save_new_magang).  The run returns before the clear when it   *)
(* finds no dataset folder (58-60) or no identity folder (77-79).         *)
process_and_save_embeddings(data_root, magang_list, err_clear, err_save) ==
    LET clear_failed == err_clear \/ ~files[DATABASE_PATH].magang.present
        start == [rows |-> IF clear_failed THEN magang_rows(DATABASE_PATH) ELSE <<>>,
                  enrolled |-> {}, err |-> clear_failed, raised |-> "none"]
        call == [Idle EXCEPT !.op = "process_and_save_embeddings",
                             !.db = DATABASE_PATH,
                             !.existed = magang_rows(DATABASE_PATH) # <<>>]
    IN /\ IF ~data_root \/ magang_list = <<>>
          THEN /\ last' = call
               /\ files' = files
          ELSE \E end \in {enrol_folders(start, magang_list, 1, err_save)} :
               /\ last' = [call EXCEPT !.folders = Len(magang_list),
                                       !.enrolled = end.enrolled,
                                       !.err = end.err, !.raised = end.raised]
               /\ files' = [connect(DATABASE_PATH) EXCEPT
                               ![DATABASE_PATH].magang.rows = end.rows]
       /\ UNCHANGED <<MAGANG_EMBEDDINGS, now>>

---------------------------------------------------------------------------
(* The wall clock advances *)

Tick ==
    /\ now < MaxClock
    /\ now' = now + 1
    /\ last' = [Idle EXCEPT !.op = "Tick"]
    /\ UNCHANGED <<files, MAGANG_EMBEDDINGS>>

---------------------------------------------------------------------------
(* Specifications *)

(* The server and the identity table of its database file.  Enrolment   *)
(* writes id = name, as training_embedding.py does (line 48).             *)
Next ==
    \/ \E err \in BOOLEAN : create_initial_tables(DATABASE_NAME, err)
    \/ \E err \in BOOLEAN : clear_magang_table(DATABASE_NAME, err)
    \/ \E id \in Ids, emb \in EnrolEmbeddings, err \in BOOLEAN :
          save_new_magang(DATABASE_NAME, id, id, emb, err)
    \/ \E err \in BOOLEAN : startup_event(err)
    \/ \E face \in BOOLEAN, emb \in Embeddings, err \in BOOLEAN :
          absensi_endpoint(face, emb, err)

Spec == Init /\ [][Next]_vars

(* The identity store, in either database file *)
NextStore ==
    \/ \E db \in DbPaths, err \in BOOLEAN : create_initial_tables(db, err)
    \/ \E db \in DbPaths, err \in BOOLEAN : clear_magang_table(db, err)
    \/ \E db \in DbPaths, id \in Ids, name \in Names, emb \in StoreEmbeddings,
          err \in BOOLEAN : save_new_magang(db, id, name, emb, err)

SpecStore == Init /\ [][NextStore]_vars

(* The attendance log of the administered database file; the caller      *)
(* passes the server's current time as log_time.                          *)
NextLedger ==
    \/ \E err \in BOOLEAN : create_initial_tables(DB_PATH, err)
    \/ \E id \in Ids, type \in LogTypes, err \in BOOLEAN :
          update_absensi_log(DB_PATH, id, id, strftime(now), type, err)
    \/ \E id \in Ids, type \in LogTypes, err \in BOOLEAN :
          check_already_absen(DB_PATH, id, type, err)
    \/ \E fault \in Faults : view_absensi_log(fault)
    \/ \E fault \in Faults : reset_absensi_log(fault)
    \/ Tick

SpecLedger == Init /\ [][NextLedger]_vars

(* Set-up, training and the server, all started in one working directory: *)
(* initial_db_setup.py and training_embedding.py use the file             *)
(* database/absensi.db, server_main.py uses the file absensi.db.  In one  *)
(* run the clear and at most one save meet a storage failure.             *)
NextTraining ==
    \/ \E err \in BOOLEAN : create_initial_tables(DATABASE_PATH, err)
    \/ \E data_root \in BOOLEAN, magang_list \in MagangLists, err_clear \in BOOLEAN :
       \E err_save \in {{}} \cup {{k} : k \in 1..Len(magang_list)} :
          /\ ~data_root => magang_list = <<>>
          /\ process_and_save_embeddings(data_root, magang_list, err_clear, err_save)
    \/ \E err \in BOOLEAN : startup_event(err)
    \/ Tick

SpecTraining == Init /\ [][NextTraining]_vars

---------------------------------------------------------------------------
(* Vocabulary of the properties *)

Requested == last.op = "absensi_endpoint" /\ last.face

DistanceTo(i, e) == calculate_cosine_distance(e, MAGANG_EMBEDDINGS[i].embedding)

MinDistance(e) ==
    CHOOSE d \in {DistanceTo(i, e) : i \in 1..Len(MAGANG_EMBEDDINGS)} :
        \A j \in 1..Len(MAGANG_EMBEDDINGS) : d <= DistanceTo(j, e)

FirstAt(e, d) ==
    CHOOSE i \in 1..Len(MAGANG_EMBEDDINGS) :
        /\ DistanceTo(i, e) = d
        /\ \A j \in 1..(i - 1) : DistanceTo(j, e) # d

(* a and b are non-zero and point the same way (equality in the           *)
(* Cauchy-Schwarz inequality with a positive dot product)                 *)
SameDirection(a, b) ==
    /\ dot(a, b) > 0
    /\ dot(a, b) * dot(a, b) = dot(a, a) * dot(b, b)

FirstSameDirection(e) ==
    CHOOSE j \in 1..Len(MAGANG_EMBEDDINGS) :
        /\ SameDirection(MAGANG_EMBEDDINGS[j].embedding, e)
        /\ \A k \in 1..(j - 1) : ~SameDirection(MAGANG_EMBEDDINGS[k].embedding, e)

UniqueIds(rows) ==
    \A i, j \in 1..Len(rows) : i # j => rows[i].id # rows[j].id

OtherRecords(rows, id) == {rows[i] : i \in {k \in 1..Len(rows) : rows[k].id # id}}

---------------------------------------------------------------------------
(* C1: every request whose face is identified as a known identity appends *)
(* exactly one event (identity, name, server time, MASUK) to the          *)
(* attendance log and is answered with the success outcome.               *)
C1_RecognizedIsLogged ==
    [][(last'.op = "absensi_endpoint" /\ last'.face /\ last'.id # "UNKNOWN")
       => /\ last'.ret = "SUCCESS200"
          /\ absensi_rows(DATABASE_NAME)' =
                Append(absensi_rows(DATABASE_NAME),
                       [id |-> MaxRowId(absensi_rows(DATABASE_NAME)) + 1,
                        magang_id |-> last'.id, nama |-> last'.name,
                        timestamp |-> strftime(now), type |-> "MASUK"])]_vars

(* C2: a request with no face, with an empty roster or with a minimum     *)
(* distance above the threshold gets a negative answer and leaves every   *)
(* table of every database file as it was.                                *)
C2_NegativeLeavesLedger ==
    [][(/\ last'.op = "absensi_endpoint"
        /\ \/ ~last'.face
           \/ MAGANG_EMBEDDINGS = <<>>
           \/ MinDistance(last'.emb) > SIMILARITY_THRESHOLD)
       => /\ files' = files
          /\ last'.ret = IF last'.face THEN "FAIL403" ELSE "FAIL400"
          /\ last'.face => last'.id = "UNKNOWN"]_vars

C2_Witness ==
    /\ Requested
    /\ last.ret = "FAIL403"
    /\ MAGANG_EMBEDDINGS # <<>>
    /\ files[DATABASE_NAME].absensi.present

C4_FirstMinimum ==
    (Requested /\ MAGANG_EMBEDDINGS # <<>>)
    => LET m == MinDistance(last.emb)
           f == FirstAt(last.emb, m)
       IN /\ last.distance = m
          /\ (last.id = "UNKNOWN") <=> (m > SIMILARITY_THRESHOLD)
          /\ m > SIMILARITY_THRESHOLD => last.name = "UNKNOWN"
          /\ m <= SIMILARITY_THRESHOLD =>
                /\ last.id = MAGANG_EMBEDDINGS[f].id
                /\ last.name = MAGANG_EMBEDDINGS[f].name

C4_Witness ==
    /\ Requested
    /\ Len(MAGANG_EMBEDDINGS) = 2
    /\ DistanceTo(1, last.emb) = DistanceTo(2, last.emb)
    /\ DistanceTo(1, last.emb) <= SIMILARITY_THRESHOLD
    /\ last.id = MAGANG_EMBEDDINGS[1].id

(* C5 as stated: a live embedding identical to the stored embedding of a  *)
(* roster entry is recognised as that entry, with distance 0.             *)
C5_IdenticalGivesThatEntry ==
    Requested
    => \A i \in 1..Len(MAGANG_EMBEDDINGS) :
          MAGANG_EMBEDDINGS[i].embedding = last.emb
          => /\ last.id = MAGANG_EMBEDDINGS[i].id
             /\ last.name = MAGANG_EMBEDDINGS[i].name
             /\ last.distance = 0

(* C5 amended: a live embedding identical to the non-zero stored          *)
(* embedding of a roster entry is recognised with distance 0 as the first *)
(* roster entry whose embedding points the same way.                      *)
C5_IdenticalGivesFirstSameDirection ==
    Requested
    => \A i \in 1..Len(MAGANG_EMBEDDINGS) :
          (MAGANG_EMBEDDINGS[i].embedding = last.emb /\ dot(last.emb, last.emb) # 0)
          => /\ last.distance = 0
             /\ last.id = MAGANG_EMBEDDINGS[FirstSameDirection(last.emb)].id
             /\ last.name = MAGANG_EMBEDDINGS[FirstSameDirection(last.emb)].name

C5_Witness ==
    /\ Requested
    /\ Len(MAGANG_EMBEDDINGS) = 2
    /\ MAGANG_EMBEDDINGS[2].embedding = last.emb
    /\ ~SameDirection(MAGANG_EMBEDDINGS[1].embedding, last.emb)
    /\ last.id = MAGANG_EMBEDDINGS[2].id
    /\ last.distance = 0

(* C6: with an empty roster the recognition returns UNKNOWN with the      *)
(* sentinel distance 999.0 and computes no distance.                      *)
C6_EmptyRosterUnknown ==
    (Requested /\ MAGANG_EMBEDDINGS = <<>>)
    => /\ last.id = "UNKNOWN"
       /\ last.name = "UNKNOWN"
       /\ last.distance = EmptyRosterDistance
       /\ last.calls = 0

C6_Witness ==
    /\ Requested
    /\ MAGANG_EMBEDDINGS = <<>>
    /\ last.ret = "FAIL403"
    /\ magang_rows(DATABASE_NAME) # <<>>

(* C7: the identity table never holds two records with one id, and a      *)
(* successful save leaves exactly one record with the saved id, carrying  *)
(* the saved name and embedding, and every record with another id as it   *)
(* was.                                                                   *)
C7_UpsertReplaces ==
    /\ [](\A db \in DbPaths : UniqueIds(magang_rows(db)))
    /\ [][(last'.op = "save_new_magang" /\ last'.ret = "True")
          => LET old == files[last'.db].magang.rows
                 new == files'[last'.db].magang.rows
             IN /\ \E i \in 1..Len(new) :
                      /\ new[i].id = last'.id
                      /\ new[i].nama = last'.name
                      /\ new[i].master_embedding = last'.emb
                      /\ \A j \in 1..Len(new) : j # i => new[j].id # last'.id
                /\ OtherRecords(new, last'.id) = OtherRecords(old, last'.id)
                /\ Len(new) = Cardinality(OtherRecords(old, last'.id)) + 1
                /\ \A db \in DbPaths \ {last'.db} : files'[db] = files[db]]_vars

C7_Witness ==
    /\ last.op = "save_new_magang"
    /\ last.ret = "True"
    /\ last.existed
    /\ Len(magang_rows(last.db)) = 2

(* C8: the events of the attendance log have distinct log ids; only a     *)
(* reset removes or changes an event, and it removes all of them; an      *)
(* appended event gets a log id above every id in the log, and the first  *)
(* event of an empty log gets id 1.                                       *)
C8_AppendOnly ==
    /\ [](\A db \in DbPaths : UniqueIds(absensi_rows(db)))
    /\ [][LET old == absensi_rows(DB_PATH)
              new == absensi_rows(DB_PATH)'
          IN /\ last'.op = "reset_absensi_log" => (new = <<>> \/ new = old)
             /\ last'.op # "reset_absensi_log" =>
                   /\ Len(new) >= Len(old)
                   /\ \A i \in 1..Len(old) : new[i] = old[i]
             /\ Len(new) > Len(old) =>
                   /\ last'.op = "update_absensi_log"
                   /\ Len(new) = Len(old) + 1
                   /\ \A i \in 1..Len(old) : new[Len(new)].id > old[i].id
                   /\ old = <<>> => new[1].id = 1]_vars

C8_Witness ==
    /\ last.op = "update_absensi_log"
    /\ Len(absensi_rows(DB_PATH)) = 2
    /\ absensi_rows(DB_PATH)[2].id > absensi_rows(DB_PATH)[1].id
    /\ absensi_rows(DB_PATH)[2].timestamp[1] > absensi_rows(DB_PATH)[1].timestamp[1]

(* C9: check_already_absen returns True exactly if the log holds an event *)
(* of that identity and type with a timestamp at or after 00:00:00 of the *)
(* current day.                                                           *)
C9_TrueIffLoggedToday ==
    last.op = "check_already_absen"
    => ((last.ret = "True")
        <=> \E i \in 1..Len(absensi_rows(last.db)) :
               /\ absensi_rows(last.db)[i].magang_id = last.id
               /\ absensi_rows(last.db)[i].type = last.type
               /\ TextGE(absensi_rows(last.db)[i].timestamp,
                         <<now \div HoursPerDay, 0>>))

(* C10: only a startup changes the loaded roster; a request never        *)
(* changes an identity table; and the identity a request recognises is an *)
(* entry of the loaded roster at the reported distance, whatever the      *)
(* identity table holds by then.                                          *)
C10_RosterIsSnapshot ==
    /\ [](Requested /\ last.id # "UNKNOWN" =>
             \E i \in 1..Len(MAGANG_EMBEDDINGS) :
                /\ MAGANG_EMBEDDINGS[i].id = last.id
                /\ MAGANG_EMBEDDINGS[i].name = last.name
                /\ DistanceTo(i, last.emb) = last.distance)
    /\ [][/\ last'.op # "startup_event" => MAGANG_EMBEDDINGS' = MAGANG_EMBEDDINGS
          /\ last'.op = "absensi_endpoint" =>
                \A db \in DbPaths : files'[db].magang = files[db].magang]_vars

C10_Witness ==
    /\ Requested
    /\ last.id # "UNKNOWN"
    /\ last.distance = 0
    /\ magang_rows(DATABASE_NAME) = <<>>

---------------------------------------------------------------------------
(* C11: a storage failure inside a storage operation (save_new_magang,    *)
(* load_all_magang_embeddings, clear_magang_table, check_already_absen,   *)
(* update_absensi_log, view_absensi_log, reset_absensi_log) never leaves  *)
(* the operation as an exception: whenever the last operation met a       *)
(* storage failure, no exception was raised to its caller.                *)
StorageOperations ==
    {"save_new_magang", "startup_event", "clear_magang_table",
     "check_already_absen", "update_absensi_log", "view_absensi_log",
     "reset_absensi_log"}

C11_FailureNeverEscapes ==
    (last.op \in StorageOperations /\ last.err) => last.raised = "none"

(* C12: a full training run clears the roster before it processes any    *)
(* identity: after a run that completed and met no storage failure, table *)
(* magang holds a record for exactly the identities that gave at least    *)
(* one embedding in this run, and every record was written by this run.   *)
RosterIds(db_name) == {magang_rows(db_name)[i].id : i \in 1..Len(magang_rows(db_name))}

WrittenNow(db_name) ==
    \A i \in 1..Len(magang_rows(db_name)) :
        magang_rows(db_name)[i].last_updated = strftime(now)

RunCompleted ==
    /\ last.op = "process_and_save_embeddings"
    /\ last.raised = "none"
    /\ ~last.err

C13_ConnectionReleased ==
    last.op \in StorageOperations => last.open = 0

(* C14: the roster a training run writes is the roster the server loads:  *)
(* after a startup whose load met no storage failure, every identity in   *)
(* the table magang that training writes is in MAGANG_EMBEDDINGS.         *)
C14_EnrolledIsLoaded ==
    (last.op = "startup_event" /\ ~last.err) =>
        \A id \in RosterIds(DATABASE_PATH) :
            \E j \in 1..Len(MAGANG_EMBEDDINGS) : MAGANG_EMBEDDINGS[j].id = id


====
